---- MODULE Spec2Model ----
(***************************************************************************)
(* Model of bundle-katex-fonts.py: bundle() reads katex.min.css, finds the *)
(* url(fonts/...) references, obtains each font (local file or CDN),       *)
(* base64-encodes it into a data: URI, substitutes the references and      *)
(* writes katex-bundled.css.                                               *)
(*                                                                         *)
(* Text is a sequence of tokens.  Every token stands for the literal       *)
(* characters it spells ("url(" is the four characters u r l ( ).  The     *)
(* stylesheets of the model are written in one tokenisation: "(" occurs    *)
(* only in the token "url(", the closers ) " ' only as tokens of their     *)
(* own, and after "url(" and a quote comes "fonts/" or "data:".  For these *)
(* texts matching and replacing on tokens is matching and replacing on     *)
(* the characters.                                                         *)
(* Bytes are integers 0..255; file contents are sequences of bytes.        *)
(***************************************************************************)
EXTENDS Integers, Sequences, FiniteSets, TLC

\* ------------------------------------------------------------------------
\* Bounds of the model
\* ------------------------------------------------------------------------
MaxItems == 2      \* url(...) items in the input stylesheet
MaxRuns == 2       \* consecutive invocations of bundle()

\* ------------------------------------------------------------------------
\* The alphabet
\* ------------------------------------------------------------------------
U == "url("
F == "fonts/"
UP == "../"
SL == "/"
DOT == "."
RP == ")"
DQ == "\""
SQ == "'"
SEP == ";"

\* The characters the pattern's class [^)"'] excludes.
Closers == {RP, DQ, SQ}

\* Code points of the tokens that can occur in a reference path (the order
\* sorted() compares by).
Chars(tok) ==
  CASE tok = U -> <<117, 114, 108, 40>>
    [] tok = F -> <<102, 111, 110, 116, 115, 47>>
    [] tok = UP -> <<46, 46, 47>>
    [] tok = SL -> <<47>>
    [] tok = DOT -> <<46>>
    [] tok = SEP -> <<59>>
    [] tok = "a" -> <<97>>
    [] tok = "b" -> <<98>>
    [] tok = "woff2" -> <<119, 111, 102, 102, 50>>
    [] tok = "woff" -> <<119, 111, 102, 102>>
    [] tok = "WOFF2" -> <<87, 79, 70, 70, 50>>
    [] tok = "ttf" -> <<116, 116, 102>>
    [] tok = "eot" -> <<101, 111, 116>>
    [] tok = "xyz" -> <<120, 121, 122>>
    [] OTHER -> <<0>>

RECURSIVE Flatten(_)
Flatten(s) == IF s = <<>> THEN <<>> ELSE Chars(Head(s)) \o Flatten(Tail(s))

\* str.lower() on a token.
Lower(tok) == IF tok = "WOFF2" THEN "woff2" ELSE tok

LowerSeq(s) == [k \in 1..Len(s) |-> Lower(s[k])]

\* ------------------------------------------------------------------------
\* str comparison, sorted(set(...))
\* ------------------------------------------------------------------------
RECURSIVE LexLess(_, _)
LexLess(x, y) ==
  IF y = <<>> THEN FALSE
  ELSE IF x = <<>> THEN TRUE
  ELSE IF Head(x) # Head(y) THEN Head(x) < Head(y)
  ELSE LexLess(Tail(x), Tail(y))

StrLess(p, q) == LexLess(Flatten(p), Flatten(q))

RECURSIVE Sorted(_)
Sorted(S) ==
  IF S = {} THEN <<>>
  ELSE LET m == CHOOSE x \in S : \A y \in S \ {x} : StrLess(x, y)
       IN <<m>> \o Sorted(S \ {m})

\* ------------------------------------------------------------------------
\* re.compile(r'url\(["\']?(fonts/[^)"\']+)["\']?\)').findall(css)
\* ------------------------------------------------------------------------
\* Length of the longest run of non-closers starting at position j.
RECURSIVE RunLen(_, _)
RunLen(s, j) ==
  IF j > Len(s) \/ s[j] \in Closers THEN 0 ELSE 1 + RunLen(s, j + 1)

\* The match starting at position i, as [ok, path, end] (end = the position
\* of the closing parenthesis).  The class is greedy and what follows the
\* run is a closer or the end of the text, so only the longest run can be
\* followed by the optional quote and the parenthesis.
MatchAt(s, i) ==
  LET noMatch == [ok |-> FALSE, path |-> <<>>, end |-> i]
  IN IF i > Len(s) \/ s[i] # U THEN noMatch
     ELSE LET j == IF i + 1 <= Len(s) /\ s[i + 1] \in {DQ, SQ} THEN i + 2 ELSE i + 1
          IN IF j > Len(s) \/ s[j] # F THEN noMatch
             ELSE LET n == RunLen(s, j + 1)
                      k == j + 1 + n
                      e == IF k <= Len(s) /\ s[k] \in {DQ, SQ} THEN k + 1 ELSE k
                  IN IF n >= 1 /\ e <= Len(s) /\ s[e] = RP
                     THEN [ok |-> TRUE, path |-> SubSeq(s, j, k - 1), end |-> e]
                     ELSE noMatch

\* The non-overlapping matches, left to right, from position i on.
RECURSIVE FindAllFrom(_, _)
FindAllFrom(s, i) ==
  IF i > Len(s) THEN <<>>
  ELSE LET m == MatchAt(s, i)
       IN IF m.ok THEN <<m.path>> \o FindAllFrom(s, m.end + 1)
          ELSE FindAllFrom(s, i + 1)

FindAll(s) == FindAllFrom(s, 1)

Range(s) == {s[k] : k \in 1..Len(s)}

UniqueFonts(s) == Sorted(Range(FindAll(s)))

\* ------------------------------------------------------------------------
\* str.replace(old, new): every non-overlapping occurrence, left to right
\* ------------------------------------------------------------------------
OccursAt(s, old, i) ==
  /\ i + Len(old) - 1 <= Len(s)
  /\ SubSeq(s, i, i + Len(old) - 1) = old

RECURSIVE ReplaceFrom(_, _, _, _)
ReplaceFrom(s, old, new, i) ==
  IF i > Len(s) THEN <<>>
  ELSE IF OccursAt(s, old, i) THEN new \o ReplaceFrom(s, old, new, i + Len(old))
  ELSE <<s[i]>> \o ReplaceFrom(s, old, new, i + 1)

Replace(s, old, new) == ReplaceFrom(s, old, new, 1)

\* The three literal forms of line 113-115: url(x), url("x"), url('x').
Form(k, x) ==
  CASE k = 1 -> <<U>> \o x \o <<RP>>
    [] k = 2 -> <<U, DQ>> \o x \o <<DQ, RP>>
    [] k = 3 -> <<U, SQ>> \o x \o <<SQ, RP>>

\* One iteration of the loop of lines 111-115.
ReplaceOne(text, font_path, data_uri) ==
  LET t1 == Replace(text, Form(1, font_path), Form(1, data_uri))
      t2 == Replace(t1, Form(2, font_path), Form(2, data_uri))
  IN Replace(t2, Form(3, font_path), Form(3, data_uri))

\* ------------------------------------------------------------------------
\* get_mime_type: os.path.splitext(path)[1].lower(), then the table
\* ------------------------------------------------------------------------
\* Position of the last token of s that is in T (0 when there is none).
RECURSIVE LastIndexIn(_, _, _)
LastIndexIn(s, T, k) ==
  IF k = 0 THEN 0 ELSE IF s[k] \in T THEN k ELSE LastIndexIn(s, T, k - 1)

\* os.path.splitext(path)[1]: the text from the last dot of the last path
\* component on, unless that component has only dots before it.
SplitExt(path) ==
  LET sepIndex == LastIndexIn(path, {F, UP, SL}, Len(path))
      dotIndex == LastIndexIn(path, {DOT}, Len(path))
  IN IF /\ dotIndex > sepIndex
        /\ \E k \in (sepIndex + 1)..(dotIndex - 1) : path[k] # DOT
     THEN SubSeq(path, dotIndex, Len(path))
     ELSE <<>>

\* get_mime_type without the .lower() of line 65.
GetMimeTypeNoLower(path) ==
  LET ext == SplitExt(path)
  IN CASE ext = <<DOT, "woff2">> -> "font/woff2"
       [] ext = <<DOT, "woff">> -> "font/woff"
       [] ext = <<DOT, "ttf">> -> "font/ttf"
       [] ext = <<DOT, "eot">> -> "application/vnd.ms-fontembedded-opentype"
       [] OTHER -> "application/octet-stream"

GetMimeType(path) ==
  LET ext == LowerSeq(SplitExt(path))
  IN CASE ext = <<DOT, "woff2">> -> "font/woff2"
       [] ext = <<DOT, "woff">> -> "font/woff"
       [] ext = <<DOT, "ttf">> -> "font/ttf"
       [] ext = <<DOT, "eot">> -> "application/vnd.ms-fontembedded-opentype"
       [] OTHER -> "application/octet-stream"

\* ------------------------------------------------------------------------
\* base64.b64encode(font_data).decode("ascii") and the data URI
\* ------------------------------------------------------------------------
B64Alphabet ==
  <<"A", "B", "C", "D", "E", "F", "G", "H", "I", "J", "K", "L", "M",
    "N", "O", "P", "Q", "R", "S", "T", "U", "V", "W", "X", "Y", "Z",
    "a", "b", "c", "d", "e", "f", "g", "h", "i", "j", "k", "l", "m",
    "n", "o", "p", "q", "r", "s", "t", "u", "v", "w", "x", "y", "z",
    "0", "1", "2", "3", "4", "5", "6", "7", "8", "9", "+", "/">>

B64Char(n) == B64Alphabet[n + 1]

RECURSIVE B64Encode(_)
B64Encode(b) ==
  IF Len(b) = 0 THEN <<>>
  ELSE IF Len(b) = 1
  THEN LET n == b[1] * 16
       IN <<B64Char(n \div 64), B64Char(n % 64), "=", "=">>
  ELSE IF Len(b) = 2
  THEN LET n == (b[1] * 256 + b[2]) * 4
       IN <<B64Char(n \div 4096), B64Char((n \div 64) % 64), B64Char(n % 64), "=">>
  ELSE LET n == b[1] * 65536 + b[2] * 256 + b[3]
       IN <<B64Char(n \div 262144), B64Char((n \div 4096) % 64),
            B64Char((n \div 64) % 64), B64Char(n % 64)>>
          \o B64Encode(SubSeq(b, 4, Len(b)))

\* f"data:{mime};base64,{b64}"
DataUri(mime, font_data) == <<"data:", mime, ";base64,">> \o B64Encode(font_data)

\* ------------------------------------------------------------------------
\* The file system under the working directory
\* ------------------------------------------------------------------------
\* A location is the sequence of directory-entry names leading to it from
\* the working directory (<<>>); a name is a sequence of tokens; <<"..">>
\* at the front of a location is the parent of the working directory.
PARENT == <<"..">>

\* The path split at its slashes: the directory components and the last
\* component (os.path.dirname / basename).
RECURSIVE SplitPath(_, _, _)
SplitPath(path, cur, acc) ==
  IF path = <<>> THEN [dirs |-> acc, base |-> cur]
  ELSE IF Head(path) = F THEN SplitPath(Tail(path), <<>>, Append(acc, cur \o <<"fonts">>))
  ELSE IF Head(path) = UP THEN SplitPath(Tail(path), <<>>, Append(acc, cur \o PARENT))
  ELSE IF Head(path) = SL
  THEN SplitPath(Tail(path), <<>>, IF cur = <<>> THEN acc ELSE Append(acc, cur))
  ELSE SplitPath(Tail(path), cur \o <<Head(path)>>, acc)

Components(path) == SplitPath(path, <<>>, <<>>)

\* The location one component further.
StepTo(loc, comp) ==
  IF comp = PARENT
  THEN IF loc = <<>> \/ loc[Len(loc)] = PARENT THEN Append(loc, comp)
       ELSE SubSeq(loc, 1, Len(loc) - 1)
  ELSE Append(loc, comp)

\* The working directory and its ancestors always exist.
IsDir(loc, ds) == loc \in ds \/ \A k \in 1..Len(loc) : loc[k] = PARENT

\* The kernel's walk along the directory components: every directory on the
\* way has to exist.
RECURSIVE Walk(_, _, _)
Walk(comps, loc, ds) ==
  IF comps = <<>> THEN [ok |-> TRUE, loc |-> loc]
  ELSE LET next == StepTo(loc, Head(comps))
       IN IF IsDir(next, ds) THEN Walk(Tail(comps), next, ds)
          ELSE [ok |-> FALSE, loc |-> next]

\* Where the path leads once its directories exist.
RECURSIVE Lead(_, _)
Lead(comps, loc) ==
  IF comps = <<>> THEN loc ELSE Lead(Tail(comps), StepTo(loc, Head(comps)))

Target(path) ==
  LET c == Components(path)
      d == Lead(c.dirs, <<>>)
  IN IF c.base = <<>> THEN d ELSE Append(d, c.base)

\* os.path.exists(local_path)
PathExists(path, fs, ds) ==
  /\ Walk(Components(path).dirs, <<>>, ds).ok
  /\ (Target(path) \in DOMAIN fs \/ IsDir(Target(path), ds))

\* The directories os.makedirs(os.path.dirname(local_path), exist_ok=True)
\* creates, in order; a component that exists as a file makes it raise.
RECURSIVE MakeDirsFrom(_, _, _, _)
MakeDirsFrom(comps, loc, fs, ds) ==
  IF comps = <<>> THEN [ok |-> TRUE, dirs |-> ds]
  ELSE LET next == StepTo(loc, Head(comps))
       IN IF next \in DOMAIN fs THEN [ok |-> FALSE, dirs |-> ds]
          ELSE MakeDirsFrom(Tail(comps), next, fs,
                            IF IsDir(next, ds) THEN ds ELSE ds \cup {next})

MakeDirs(path, fs, ds) == MakeDirsFrom(Components(path).dirs, <<>>, fs, ds)

\* ------------------------------------------------------------------------
\* Inputs: the stylesheets, the font contents, the files already on disk
\* ------------------------------------------------------------------------
PA == <<F, "a", DOT, "woff2">>
PB == <<F, "b", DOT, "WOFF2">>
PT == <<F, "a", DOT, "ttf">>
PE == <<F, "a", DOT, "eot">>
PW == <<F, "a", DOT, "woff">>
PX == <<F, "a", DOT, "xyz">>
PUp == <<F, UP, "a">>
PNest == <<F, "b", U, F, "a", DOT, "woff2">>
PAlias == <<F, "b", SL, UP, "a", DOT, "woff2">>

Paths == {PA, PB, PNest, PUp, PAlias}

Quotes == {<<>>, <<DQ>>, <<SQ>>}

\* One url(...) item of a stylesheet, followed by a separator.
Item(oq, path, cq) == <<U>> \o oq \o path \o cq \o <<RP, SEP>>

\* The stylesheets of at most n items over the paths P, quoted by Q.
RECURSIVE Texts(_, _, _)
Texts(n, P, Q) ==
  IF n = 0 THEN {<<>>}
  ELSE LET shorter == Texts(n - 1, P, Q)
       IN shorter \cup {t \o Item(oq, p, cq) :
                          t \in shorter, oq \in Q, p \in P, cq \in Q}

Stylesheets == Texts(MaxItems, Paths, Quotes)

\* What a font file can hold.
Contents == {<<65>>, <<255, 0>>}

ProperPrefixes(data) == {SubSeq(data, 1, n) : n \in 0..(Len(data) - 1)}

\* ------------------------------------------------------------------------
\* State
\* ------------------------------------------------------------------------
VARIABLES
  inputFile,      \* katex.min.css: [exists, text]
  outputFile,     \* katex-bundled.css: [exists, text]
  outWrites,      \* how many times katex-bundled.css was written
  files,          \* the other files on disk: location -> bytes
  dirs,           \* the directories on disk: a set of locations
  pc,             \* where bundle() is
  run,            \* the number of the invocation
  css,            \* bundle's css
  unique_fonts,   \* bundle's unique_fonts
  idx,            \* position of the for loop of line 96 in unique_fonts
  replacements,   \* bundle's replacements, in insertion order: <<path, uri>>
  total_size,     \* bundle's total_size
  bundled_css,    \* bundle's bundled_css
  errors,         \* the paths of this run's [ERROR] lines
  netCalls,       \* <<run, path>> of every urlopen
  fetched,        \* <<run, path, data>> of every download that returned
  touched         \* the locations download_font read, created or wrote

vars == <<inputFile, outputFile, outWrites, files, dirs, pc, run, css,
          unique_fonts, idx, replacements, total_size, bundled_css, errors,
          netCalls, fetched, touched>>

env == <<inputFile, outputFile, outWrites, files, dirs>>
locals == <<css, unique_fonts, idx, replacements, total_size, bundled_css, errors>>
observed == <<netCalls, fetched, touched>>

NoText == <<>>
NoFiles == <<>>

\* The keys of replacements and the value of a key.
Keys(repl) == {repl[k][1] : k \in 1..Len(repl)}
UriOf(repl, path) == repl[CHOOSE k \in 1..Len(repl) : repl[k][1] = path][2]

\* A disk that holds nothing of the cache, or one font file already there.
InitialDisks(P) ==
  {[files |-> NoFiles, dirs |-> {}]}
    \cup {[files |-> (Target(p) :> c), dirs |-> MakeDirs(p, NoFiles, {}).dirs] :
            p \in P, c \in Contents}

\* The state before the first invocation, for the stylesheets T and the
\* disks over the paths P.
InitOver(T, P) ==
  /\ inputFile \in {[exists |-> FALSE, text |-> NoText]}
                     \cup {[exists |-> TRUE, text |-> t] : t \in T}
  /\ outputFile = [exists |-> FALSE, text |-> NoText]
  /\ outWrites = 0
  /\ \E d \in InitialDisks(P) : files = d.files /\ dirs = d.dirs
  /\ pc = "start"
  /\ run = 1
  /\ css = NoText
  /\ unique_fonts = <<>>
  /\ idx = 1
  /\ replacements = <<>>
  /\ total_size = 0
  /\ bundled_css = NoText
  /\ errors = {}
  /\ netCalls = {}
  /\ fetched = {}
  /\ touched = {}

\* The fonts that may be on disk before the first invocation.
CachedPaths == {PA, PUp}

Init == InitOver(Stylesheets, CachedPaths)

\* ------------------------------------------------------------------------
\* bundle()
\* ------------------------------------------------------------------------
\* The guard of line 75 left out.
InputMissingNever == FALSE

\* Line 75: the guard on the input file.
InputMissing == ~inputFile.exists

\* Where the for loop of line 96 goes with i the next position.
LoopPc(fonts, i) == IF i > Len(fonts) THEN "write" ELSE "fonts"

\* Lines 75-78: no input file, the diagnostic is printed and bundle returns.
MissingInput ==
  /\ pc = "start"
  /\ InputMissing
  /\ pc' = "fatal"
  /\ UNCHANGED <<env, run, locals, observed>>

\* Lines 80-95: read the stylesheet, find and sort the references.
ReadInput ==
  /\ pc = "start"
  /\ ~InputMissing
  /\ css' = inputFile.text
  /\ unique_fonts' = UniqueFonts(inputFile.text)
  /\ replacements' = <<>>
  /\ total_size' = 0
  /\ idx' = 1
  /\ pc' = LoopPc(UniqueFonts(inputFile.text), 1)
  /\ UNCHANGED <<env, run, bundled_css, errors, observed>>

\* Lines 99-103: the entry the loop body adds for a font it obtained.
Encoded(font_path, font_data) ==
  <<font_path, DataUri(GetMimeType(font_path), font_data)>>

\* Lines 98-103 when download_font returned font_data.
Obtained(font_path, font_data) ==
  /\ total_size' = total_size + Len(font_data)
  /\ replacements' = Append(replacements, Encoded(font_path, font_data))
  /\ errors' = errors
  /\ pc' = LoopPc(unique_fonts, idx + 1)

\* Lines 104-107: where the run goes after download_font raised.
AfterException(fonts, i) == LoopPc(fonts, i + 1)

\* Lines 104-107 when download_font raised: logged, the font is skipped.
Raised(font_path) ==
  /\ errors' = errors \cup {font_path}
  /\ pc' = AfterException(unique_fonts, idx)
  /\ UNCHANGED <<total_size, replacements>>

\* The test of line 42 left out: every font is downloaded.
IsCachedNever(local_path) == FALSE

\* Line 42: the test that decides between the local file and the CDN.
IsCached(local_path) == PathExists(local_path, files, dirs)

\* Lines 57-58: the file the download leaves in the cache.
CacheWrite(fs, local_path, data) == (Target(local_path) :> data) @@ fs

\* Lines 42-45: the file is there; it is read, or reading it raises.
CacheHit ==
  /\ pc = "fonts"
  /\ idx <= Len(unique_fonts)
  /\ LET font_path == unique_fonts[idx]
     IN /\ IsCached(font_path)
        /\ touched' = touched \cup {Target(font_path)}
        /\ \/ /\ Target(font_path) \in DOMAIN files
              /\ Obtained(font_path, files[Target(font_path)])
           \/ Raised(font_path)
  /\ idx' = idx + 1
  /\ UNCHANGED <<env, run, css, unique_fonts, bundled_css, netCalls, fetched>>

\* Line 48 raises: nothing is created, nothing is fetched.
MakeDirsFails ==
  /\ pc = "fonts"
  /\ idx <= Len(unique_fonts)
  /\ ~IsCached(unique_fonts[idx])
  /\ Raised(unique_fonts[idx])
  /\ idx' = idx + 1
  /\ UNCHANGED <<env, run, css, unique_fonts, bundled_css, observed>>

\* Lines 48-60: the directories are made, the CDN is asked; then the data
\* is written and returned, or the fetch raises, or opening the cache file
\* raises, or writing it raises and leaves a part of the data.
Download ==
  /\ pc = "fonts"
  /\ idx <= Len(unique_fonts)
  /\ LET font_path == unique_fonts[idx]
         made == MakeDirs(font_path, files, dirs)
     IN /\ ~IsCached(font_path)
        /\ made.ok
        /\ dirs' = made.dirs
        /\ netCalls' = netCalls \cup {<<run, font_path>>}
        /\ \/ \E data \in Contents :
                /\ files' = CacheWrite(files, font_path, data)
                /\ fetched' = fetched \cup {<<run, font_path, data>>}
                /\ touched' = touched \cup (made.dirs \ dirs) \cup {Target(font_path)}
                /\ Obtained(font_path, data)
           \/ /\ Raised(font_path)
              /\ touched' = touched \cup (made.dirs \ dirs)
              /\ UNCHANGED <<files, fetched>>
           \/ /\ \E data \in Contents : \E part \in ProperPrefixes(data) :
                   files' = CacheWrite(files, font_path, part)
              /\ Raised(font_path)
              /\ touched' = touched \cup (made.dirs \ dirs) \cup {Target(font_path)}
              /\ UNCHANGED fetched
  /\ idx' = idx + 1
  /\ UNCHANGED <<inputFile, outputFile, outWrites, run, css, unique_fonts, bundled_css>>

\* Lines 110-115: the entries applied in insertion order.
RECURSIVE ApplyAll(_, _)
ApplyAll(text, repl) ==
  IF repl = <<>> THEN text
  ELSE ApplyAll(ReplaceOne(text, Head(repl)[1], Head(repl)[2]), Tail(repl))

\* Lines 109-128: substitute, write the output file, print the summary.
WriteOutput ==
  /\ pc = "write"
  /\ bundled_css' = ApplyAll(css, replacements)
  /\ outputFile' = [exists |-> TRUE, text |-> ApplyAll(css, replacements)]
  /\ outWrites' = outWrites + 1
  /\ pc' = "done"
  /\ UNCHANGED <<inputFile, files, dirs, run, css, unique_fonts, idx,
                 replacements, total_size, errors, observed>>

\* Lines 131-132 again: the script is run once more in the same directory.
Rerun ==
  /\ pc \in {"done", "fatal"}
  /\ run < MaxRuns
  /\ run' = run + 1
  /\ pc' = "start"
  /\ css' = NoText
  /\ unique_fonts' = <<>>
  /\ idx' = 1
  /\ replacements' = <<>>
  /\ total_size' = 0
  /\ bundled_css' = NoText
  /\ errors' = {}
  /\ UNCHANGED <<env, observed>>

\* One invocation of the script.
Next ==
  \/ MissingInput
  \/ ReadInput
  \/ CacheHit
  \/ MakeDirsFails
  \/ Download
  \/ WriteOutput

Spec == Init /\ [][Next]_vars

\* One invocation on stylesheets of unquoted references, any font cached.
PlainSheets == Texts(MaxItems, Paths, {<<>>})

InitPlain == InitOver(PlainSheets, Paths)

SpecPlain == InitPlain /\ [][Next]_vars

\* Consecutive invocations in the same directory on those stylesheets.
NextRerun == Next \/ Rerun

SpecRerun == InitPlain /\ [][NextRerun]_vars

\* One invocation on stylesheets of one reference, over the extensions.
MimePaths ==
  {PA, PB, PT, PE, PW, PX, PUp, PNest,
   <<F, "a">>, <<F, DOT, "woff">>, <<F, "a", DOT, "woff", SL, "b">>,
   <<F, "a", DOT, "ttf", DOT, "eot">>}

MimeSheets == Texts(1, MimePaths, Quotes)

InitMime == InitOver(MimeSheets, MimePaths)

SpecMime == InitMime /\ [][Next]_vars

\* ------------------------------------------------------------------------
\* Operators the properties are stated with
\* ------------------------------------------------------------------------
\* How many times pat occurs in s.
Count(s, pat) == Cardinality({i \in 1..Len(s) : OccursAt(s, pat, i)})

B64Index(ch) == CHOOSE n \in 0..63 : B64Alphabet[n + 1] = ch

\* The bytes a base64 text stands for.
RECURSIVE B64Decode(_)
B64Decode(t) ==
  IF Len(t) < 4 THEN <<>>
  ELSE LET i1 == B64Index(t[1])
           i2 == B64Index(t[2])
           rest == B64Decode(SubSeq(t, 5, Len(t)))
       IN IF t[3] = "=" THEN <<(i1 * 64 + i2) \div 16>>
          ELSE IF t[4] = "="
          THEN LET n == (i1 * 4096 + i2 * 64 + B64Index(t[3])) \div 4
               IN <<n \div 256, n % 256>>
          ELSE LET n == i1 * 262144 + i2 * 4096 + B64Index(t[3]) * 64 + B64Index(t[4])
               IN <<n \div 65536, (n \div 256) % 256, n % 256>> \o rest

\* The parts of a data URI.
MimeOf(uri) == uri[2]
PayloadOf(uri) == SubSeq(uri, 4, Len(uri))

\* A file is at the path: its directories resolve and the file is there.
FileAt(path) ==
  /\ Walk(Components(path).dirs, <<>>, dirs).ok
  /\ Target(path) \in DOMAIN files

MimeTypes ==
  {"font/woff2", "font/woff", "font/ttf",
   "application/vnd.ms-fontembedded-opentype", "application/octet-stream"}

\* The table of the specification, by lowercased extension.
TableMime(e) ==
  CASE e = "woff2" -> "font/woff2"
    [] e = "woff" -> "font/woff"
    [] e = "ttf" -> "font/ttf"
    [] e = "eot" -> "application/vnd.ms-fontembedded-opentype"
    [] OTHER -> "application/octet-stream"

\* The path ends in a file name, a dot and an extension.
HasPlainExt(p) ==
  /\ Len(p) >= 4
  /\ p[Len(p) - 1] = DOT
  /\ p[Len(p) - 2] \notin {F, UP, SL, DOT}
  /\ p[Len(p)] \notin {F, UP, SL, DOT}

\* The paths that occur in s as url(p), url("p") or url('p').
WellFormedRefs(s) ==
  {p \in {SubSeq(s, i, j) : i \in 1..Len(s), j \in 1..Len(s)} :
     /\ Len(p) >= 2
     /\ p[1] = F
     /\ \A k \in 1..Len(p) : p[k] \notin Closers
     /\ \E k \in 1..3 : Count(s, Form(k, p)) > 0}

\* The stylesheet with the url(...) tokens of the mapped references, in one
\* of the three forms, replaced by the form around the data URI, and all
\* the rest as it is.
RECURSIVE FrameFrom(_, _, _)
FrameFrom(s, i, repl) ==
  IF i > Len(s) THEN <<>>
  ELSE LET m == MatchAt(s, i)
       IN IF ~m.ok THEN <<s[i]>> \o FrameFrom(s, i + 1, repl)
          ELSE LET tok == SubSeq(s, i, m.end)
                   forms == {k \in 1..3 : tok = Form(k, m.path)}
               IN (IF m.path \in Keys(repl) /\ forms # {}
                   THEN Form(CHOOSE k \in forms : TRUE, UriOf(repl, m.path))
                   ELSE tok)
                  \o FrameFrom(s, m.end + 1, repl)

\* ------------------------------------------------------------------------
\* Properties
\* ------------------------------------------------------------------------

\* C1: when download_font raises for some of the discovered references, the
\* run still ends normally with the output written, every other discovered
\* reference is in the mapping, and no reference to it remains in the output.
C1_PartialFailureIsolation ==
  /\ (pc = "write" /\ errors # {}) =>
       Keys(replacements) \cup errors = Range(unique_fonts)
  /\ (pc = "done" /\ errors # {}) =>
       /\ outputFile.exists
       /\ outWrites = 1
       /\ Keys(replacements) \cup errors = Range(unique_fonts)
       /\ \A p \in Range(unique_fonts) \ errors :
            p \notin Range(FindAll(outputFile.text))

\* C2: for every encoded path the output holds no url(path), url("path") or
\* url('path'), and every occurrence of a form in the input is an occurrence
\* of the same form around the path's data URI in the output.
C2_SubstitutionComplete ==
  pc = "done" =>
    \A p \in Keys(replacements), k \in 1..3 :
      /\ Count(outputFile.text, Form(k, p)) = 0
      /\ Count(outputFile.text, Form(k, UriOf(replacements, p)))
           >= Count(css, Form(k, p))

\* C3: the output is the input except at the url(...) tokens of the encoded
\* references; the tokens of failed or unmapped references and the text
\* around the tokens are as in the input.
C3_Frame ==
  pc = "done" => outputFile.text = FrameFrom(css, 1, replacements)

\* C4: when every discovered reference was encoded, the output holds no
\* url(...) token the discovery pattern still matches.
C4_SelfContained ==
  (pc = "done" /\ errors = {}) => FindAll(outputFile.text) = <<>>

\* C5: with no input file the run ends at the diagnostic: no output file, no
\* fetch, no file or directory created, nothing read, and nothing follows.
C5_MissingInputGuard ==
  ~inputFile.exists =>
    /\ pc \in {"start", "fatal"}
    /\ outWrites = 0
    /\ ~outputFile.exists
    /\ netCalls = {}
    /\ fetched = {}
    /\ touched = {}
    /\ [files |-> files, dirs |-> dirs] \in InitialDisks(Paths)
    /\ (pc = "fatal" => ~ENABLED Next)

C5_Witness == pc = "fatal"

\* C6: a reference whose file is on disk when it is processed causes no
\* network call and no write, and what is encoded for it decodes to the
\* bytes of that file.
C6_CachePrecedence ==
  [][(pc = "fonts" /\ idx <= Len(unique_fonts) /\ FileAt(unique_fonts[idx])) =>
       /\ netCalls' = netCalls
       /\ fetched' = fetched
       /\ files' = files
       /\ dirs' = dirs
       /\ Len(replacements') > Len(replacements) =>
            LET e == replacements'[Len(replacements')]
            IN /\ e[1] = unique_fonts[idx]
               /\ B64Decode(PayloadOf(e[2])) = files[Target(unique_fonts[idx])]]_vars

C6_Witness ==
  \E p \in Keys(replacements) :
    /\ <<run, p>> \notin netCalls
    /\ FileAt(p)
    /\ B64Decode(PayloadOf(UriOf(replacements, p))) = files[Target(p)]

\* C7: in the second run, every reference the first run fetched is in the
\* cache with the fetched bytes, is not fetched again and, when encoded, is
\* encoded from those bytes; the second run writes the output again.
C7_Rerun ==
  run = 2 =>
    /\ \A f \in fetched :
         f[1] = 1 =>
           /\ Target(f[2]) \in DOMAIN files
           /\ files[Target(f[2])] = f[3]
           /\ <<2, f[2]>> \notin netCalls
           /\ f[2] \in Keys(replacements) =>
                B64Decode(PayloadOf(UriOf(replacements, f[2]))) = f[3]
    /\ pc = "done" => outWrites = 2

\* C8: the references processed are the paths that occur in the stylesheet
\* as url(path), url("path") or url('path'), each once, in lexicographic
\* order; with none, the output is still written.
C8_Discovery ==
  /\ pc \in {"fonts", "write", "done"} => unique_fonts = Sorted(WellFormedRefs(css))
  /\ pc = "done" => outputFile.exists

\* C9: get_mime_type gives one of the five MIME strings for every path, the
\* one of the table for a path that ends in an extension, the generic one
\* for a path without a dot; the MIME part of every data URI of the mapping
\* is the one of the table for its path.
C9_MimeType ==
  /\ \A p \in MimePaths : GetMimeType(p) \in MimeTypes
  /\ \A k \in 1..Len(replacements) :
       LET p == replacements[k][1]
           uri == replacements[k][2]
       IN /\ uri[1] = "data:"
          /\ uri[3] = ";base64,"
          /\ MimeOf(uri) \in MimeTypes
          /\ HasPlainExt(p) => MimeOf(uri) = TableMime(Lower(p[Len(p)]))
          /\ DOT \notin Range(p) => MimeOf(uri) = "application/octet-stream"

C9_Witness ==
  /\ pc = "done"
  /\ \E k \in 1..Len(replacements) :
       /\ replacements[k][1] = PB
       /\ MimeOf(replacements[k][2]) = "font/woff2"

\* C10: every location download_font reads, creates or writes is the cache
\* directory fonts or inside it.
C10_CacheConfinement ==
  \A loc \in touched : Len(loc) >= 1 /\ loc[1] = <<"fonts">>

====
